---- MODULE Spec2Model ----
(***************************************************************************)
(* Model of roundlib (rounder::number, the rounding helpers of             *)
(* rounder::detail, rounder::formatter and rounder::format).               *)
(*                                                                         *)
(* A std::string / std::string_view is a sequence of one-character         *)
(* strings.  A rounder::number is a record [n, p, sgn].  std::exit(1) is   *)
(* the outcome "fatal": an operator that can reach it returns a record     *)
(* with ok = FALSE and the state variable fatal records it.                *)
(***************************************************************************)
EXTENDS Integers, Sequences, FiniteSets

(***************************************************************************)
(* Bounds of the model.                                                    *)
(***************************************************************************)
\* width of the mantissa in bits (std::uint64_t in the source, narrowed so
\* that the overflow branch of from_string is within reach)
MantBits == 16
\* longest token drawn over the whole alphabet
MaxTokLen == 4
\* largest mantissa of the numbers handed to the rounding helpers
MaxMant == 1012
\* largest |exponent| of the numbers handed to the helpers
MaxExp == 2
\* longest uncertainty list handed to quadrature_sum / symmetrize_errors
MaxErrs == 3
\* number of successive calls of symmetrize_errors on one vector
MaxCalls == 2

\* longest flag string handed to fmt::formatter<measurement>::parse
MaxFlags == 2

RECURSIVE Pow(_, _)
Pow(b, e) == IF e <= 0 THEN 1 ELSE b * Pow(b, e - 1)

\* std::numeric_limits<std::uint64_t>::max() at the model's width
UintMax == Pow(2, MantBits) - 1

Abs(x) == IF x < 0 THEN -x ELSE x

Max(a, b) == IF a >= b THEN a ELSE b

(***************************************************************************)
(* Characters.                                                             *)
(***************************************************************************)
Digits == <<"0", "1", "2", "3", "4", "5", "6", "7", "8", "9">>

\* std::isdigit
IsDigit(c) == \E i \in 1..10 : Digits[i] = c

\* c - '0'
DigitVal(c) == CHOOSE d \in 0..9 : Digits[d + 1] = c

DigitChar(d) == Digits[d + 1]

\* std::isspace in the "C" locale
IsSpace(c) == c \in {" ", "\t", "\n", "\r", "\f"}

RECURSIVE Repeat(_, _)
\* std::string(count, c)
Repeat(c, count) == IF count <= 0 THEN <<>> ELSE <<c>> \o Repeat(c, count - 1)

(***************************************************************************)
(* struct number                                                           *)
(***************************************************************************)
Number(n, p, sgn) == [n |-> n, p |-> p, sgn |-> sgn]

\* constexpr number() noexcept = default
NumberDefault == Number(0, 0, 0)

\* the failure outcome of an operator that ends in std::exit(1)
Exit(why) == [ok |-> FALSE, err |-> why, n |-> 0, p |-> 0, sgn |-> 0]

Ok(n, p, sgn) == [ok |-> TRUE, err |-> "", n |-> n, p |-> p, sgn |-> sgn]

\* the number carried by a successful outcome
NumOf(r) == Number(r.n, r.p, r.sgn)

RECURSIVE TrimFront(_)
TrimFront(sv) ==
    IF sv # <<>> /\ IsSpace(Head(sv)) THEN TrimFront(Tail(sv)) ELSE sv

RECURSIVE TrimBack(_)
TrimBack(sv) ==
    IF sv # <<>> /\ IsSpace(sv[Len(sv)])
    THEN TrimBack(SubSeq(sv, 1, Len(sv) - 1))
    ELSE sv

RECURSIVE ScanDigitsAnyDots(_, _, _, _)
\* ScanDigits without the test for a second decimal point
ScanDigitsAnyDots(sv, i, dot, digits) ==
    IF i > Len(sv)
    THEN [err |-> IF digits = 0 THEN "no digits" ELSE "", dot |-> dot, digits |-> digits]
    ELSE IF sv[i] = "."
         THEN ScanDigitsAnyDots(sv, i + 1, i, digits)
         ELSE IF IsDigit(sv[i])
              THEN ScanDigitsAnyDots(sv, i + 1, dot, digits + 1)
              ELSE [err |-> "invalid character", dot |-> dot, digits |-> digits]

RECURSIVE ScanDigits(_, _, _, _)
\* the "scan digits" loop of from_string: i is the 1-based position, dot the
\* position of the decimal point (0 = npos), digits the running count
ScanDigits(sv, i, dot, digits) ==
    IF i > Len(sv)
    THEN [err |-> IF digits = 0 THEN "no digits" ELSE "", dot |-> dot, digits |-> digits]
    ELSE IF sv[i] = "."
         THEN IF dot # 0
              THEN [err |-> "multiple decimal points", dot |-> dot, digits |-> digits]
              ELSE ScanDigits(sv, i + 1, i, digits)
         ELSE IF IsDigit(sv[i])
              THEN ScanDigits(sv, i + 1, dot, digits + 1)
              ELSE [err |-> "invalid character", dot |-> dot, digits |-> digits]

RECURSIVE MantissaStrict(_, _, _)
\* Mantissa with the overflow test off by one (>= for >)
MantissaStrict(sv, i, mant) ==
    IF i > Len(sv) THEN mant
    ELSE IF sv[i] = "." THEN MantissaStrict(sv, i + 1, mant)
    ELSE LET d == DigitVal(sv[i])
         IN IF mant >= (UintMax - d) \div 10
            THEN -1
            ELSE MantissaStrict(sv, i + 1, mant * 10 + d)

RECURSIVE MantissaNoDigit(_, _, _)
\* Mantissa with an overflow test that leaves the digit out, so that the
\* accumulation can wrap around at the width
MantissaNoDigit(sv, i, mant) ==
    IF i > Len(sv) THEN mant
    ELSE IF sv[i] = "." THEN MantissaNoDigit(sv, i + 1, mant)
    ELSE IF mant > UintMax \div 10
         THEN -1
         ELSE MantissaNoDigit(sv, i + 1, (mant * 10 + DigitVal(sv[i])) % (UintMax + 1))

RECURSIVE Mantissa(_, _, _)
\* the "mantissa" loop of from_string; -1 stands for the overflow exit
Mantissa(sv, i, mant) ==
    IF i > Len(sv) THEN mant
    ELSE IF sv[i] = "." THEN Mantissa(sv, i + 1, mant)
    ELSE LET d == DigitVal(sv[i])
         IN IF mant > (UintMax - d) \div 10
            THEN -1
            ELSE Mantissa(sv, i + 1, mant * 10 + d)

\* from_string with the exponent off by one (one character after the '.'
\* left out of the count)
from_string_after(sv0) ==
    LET trimmed == TrimBack(TrimFront(sv0))
    IN IF trimmed = <<>> THEN Exit("empty number")
       ELSE LET sgn == IF Head(trimmed) = "+" THEN 1
                       ELSE IF Head(trimmed) = "-" THEN -1 ELSE 0
                sv == IF sgn # 0 THEN Tail(trimmed) ELSE trimmed
                scan == ScanDigits(sv, 1, 0, 0)
                mant == Mantissa(sv, 1, 0)
            IN IF scan.err # "" THEN Exit(scan.err)
               ELSE IF mant < 0 THEN Exit("mantissa overflow")
               ELSE Ok(mant, IF scan.dot = 0 THEN 0 ELSE -(Len(sv) - scan.dot - 1), sgn)

\* number::from_string
from_string(sv0) ==
    LET trimmed == TrimBack(TrimFront(sv0))
    IN IF trimmed = <<>> THEN Exit("empty number")
       ELSE LET sgn == IF Head(trimmed) = "+" THEN 1
                       ELSE IF Head(trimmed) = "-" THEN -1 ELSE 0
                sv == IF sgn # 0 THEN Tail(trimmed) ELSE trimmed
                scan == ScanDigits(sv, 1, 0, 0)
                mant == Mantissa(sv, 1, 0)
            IN IF scan.err # "" THEN Exit(scan.err)
               ELSE IF mant < 0 THEN Exit("mantissa overflow")
               ELSE Ok(mant, IF scan.dot = 0 THEN 0 ELSE -(Len(sv) - scan.dot), sgn)

RECURSIVE ToChars(_)
\* std::to_chars of an unsigned integer
ToChars(n) ==
    IF n < 10 THEN <<DigitChar(n)>>
    ELSE ToChars(n \div 10) \o <<DigitChar(n % 10)>>

\* to_string with the "0.xxx" test off by one (> for >=)
to_string_dot(v, factorize_powers) ==
    LET mant == ToChars(v.n)
        len == Len(mant)
        sign == IF v.sgn < 0 THEN <<"-">> ELSE <<>>
    IN IF v.p >= 0 \/ factorize_powers
       THEN sign \o mant \o (IF ~factorize_powers THEN Repeat("0", v.p) ELSE <<>>)
       ELSE LET shift == -v.p
            IN IF shift > len
               THEN sign \o <<"0", ".">> \o Repeat("0", shift - len) \o mant
               ELSE sign \o SubSeq(mant, 1, len - shift) \o <<".">>
                         \o SubSeq(mant, len - shift + 1, len)

\* number::to_string
to_string(v, factorize_powers) ==
    LET mant == ToChars(v.n)
        len == Len(mant)
        sign == IF v.sgn < 0 THEN <<"-">> ELSE <<>>
    IN IF v.p >= 0 \/ factorize_powers
       THEN sign \o mant \o (IF ~factorize_powers THEN Repeat("0", v.p) ELSE <<>>)
       ELSE LET shift == -v.p
            IN IF shift >= len
               THEN sign \o <<"0", ".">> \o Repeat("0", shift - len) \o mant
               ELSE sign \o SubSeq(mant, 1, len - shift) \o <<".">>
                         \o SubSeq(mant, len - shift + 1, len)

(***************************************************************************)
(* namespace detail: helpers to round                                      *)
(***************************************************************************)
RECURSIVE DigitLoop(_, _)
\* the while (v) loop of digit_count
DigitLoop(v, c) == IF v = 0 THEN c ELSE DigitLoop(v \div 10, c + 1)

\* digit_count without the special case of 0
digit_count_loop_only(v) == DigitLoop(v, 0)

\* detail::digit_count
digit_count(v) == IF v = 0 THEN 1 ELSE DigitLoop(v, 0)

RECURSIVE DropDigits(_, _)
\* the while (drop--) loop of keep_three_sig
DropDigits(v, drop) ==
    IF drop = 0 THEN v
    ELSE DropDigits(Number(v.n \div 10, v.p + 1, v.sgn), drop - 1)

\* detail::keep_three_sig: the number it leaves in n
keep_three_sig(v) ==
    LET nd == digit_count(v.n)
    IN IF nd = 1 THEN Number(v.n * 100, v.p - 2, v.sgn)
       ELSE IF nd = 2 THEN Number(v.n * 10, v.p - 1, v.sgn)
       ELSE DropDigits(v, nd - 3)

\* detail::keep_three_sig: whether it prints the zero-padding warning
keep_three_sig_warns(v, quiet) == digit_count(v.n) < 3 /\ ~quiet

\* pdg_rule with the first band ending at 355 instead of 354
pdg_rule_355(v) ==
    IF digit_count(v.n) # 3 THEN Exit("does not have 3 digits")
    ELSE IF 100 <= v.n /\ v.n <= 355
         THEN LET u == v.n % 10
              IN Ok((v.n \div 10) + (IF u >= 5 THEN 1 ELSE 0), v.p + 1, v.sgn)
         ELSE IF 355 <= v.n /\ v.n <= 949
              THEN LET d == (v.n \div 10) % 10
                   IN Ok((v.n \div 100) + (IF d >= 5 THEN 1 ELSE 0), v.p + 2, v.sgn)
              ELSE Ok(10, v.p + 2, v.sgn)

\* detail::pdg_rule
pdg_rule(v) ==
    IF digit_count(v.n) # 3 THEN Exit("does not have 3 digits")
    ELSE IF 100 <= v.n /\ v.n <= 354
         THEN LET u == v.n % 10
              IN Ok((v.n \div 10) + (IF u >= 5 THEN 1 ELSE 0), v.p + 1, v.sgn)
         ELSE IF 355 <= v.n /\ v.n <= 949
              THEN LET d == (v.n \div 10) % 10
                   IN Ok((v.n \div 100) + (IF d >= 5 THEN 1 ELSE 0), v.p + 2, v.sgn)
              ELSE Ok(10, v.p + 2, v.sgn)

\* detail::pdg_round
pdg_round(v) == pdg_rule(keep_three_sig(v))

\* detail::twodig_round
twodig_round(v) ==
    LET k == keep_three_sig(v)
        u == k.n % 10
    IN Ok((k.n \div 10) + (IF u >= 5 THEN 1 ELSE 0), k.p + 1, k.sgn)

RECURSIVE PrecLoopGt(_, _, _)
\* PrecLoop with the final increment for d > 5 instead of d >= 5
PrecLoopGt(v, prec, d) ==
    IF v.p < prec
    THEN PrecLoopGt(Number(v.n \div 10, v.p + 1, v.sgn), prec, v.n % 10)
    ELSE Ok(v.n + (IF d > 5 THEN 1 ELSE 0), v.p, v.sgn)

RECURSIVE PrecLoop(_, _, _)
\* the while (n.p < prec) loop of round_to_prec, then the final increment
PrecLoop(v, prec, d) ==
    IF v.p < prec
    THEN PrecLoop(Number(v.n \div 10, v.p + 1, v.sgn), prec, v.n % 10)
    ELSE Ok(v.n + (IF d >= 5 THEN 1 ELSE 0), v.p, v.sgn)

\* round_to_prec with the exit test off by one (>= for >)
round_to_prec_ge(v, prec) ==
    IF v.p >= prec THEN Exit("cannot round to precision")
    ELSE PrecLoop(v, prec, 0)

\* detail::round_to_prec
round_to_prec(v, prec) ==
    IF v.p > prec THEN Exit("cannot round to precision")
    ELSE PrecLoop(v, prec, 0)

(***************************************************************************)
(* double arithmetic.  A double is modelled by the rational it stands for: *)
(* exact for the integer-valued numbers handed to quadrature_sum and       *)
(* symmetrize_errors by the model, where every intermediate result is a    *)
(* multiple of a small power of 1/2.                                       *)
(***************************************************************************)
RECURSIVE GCD(_, _)
GCD(a, b) == IF b = 0 THEN a ELSE GCD(b, a % b)

Rat(num, den) ==
    LET g == GCD(Abs(num), den)
    IN [num |-> num \div g, den |-> den \div g]

RatAdd(a, b) ==
    LET l == (a.den \div GCD(a.den, b.den)) * b.den
    IN Rat(a.num * (l \div a.den) + b.num * (l \div b.den), l)

RatNeg(a) == [num |-> -a.num, den |-> a.den]

RatSub(a, b) == RatAdd(a, RatNeg(b))

RatMul(a, b) ==
    LET x == Rat(a.num, b.den)
        y == Rat(b.num, a.den)
    IN Rat(x.num * y.num, x.den * y.den)

RatAbs(a) == [num |-> Abs(a.num), den |-> a.den]

RatLess(a, b) == a.num * b.den < b.num * a.den

RatHalf == Rat(1, 2)

RatZero == Rat(0, 1)

RatOne == Rat(1, 1)

\* number::to_double
to_double(v) ==
    LET s == IF v.sgn = 0 THEN 1 ELSE v.sgn
    IN IF v.p >= 0 THEN Rat(s * v.n * Pow(10, v.p), 1)
       ELSE Rat(s * v.n, Pow(10, -v.p))

RECURSIVE Isqrt(_)
\* floor of the square root of a natural number
Isqrt(m) ==
    IF m < 2 THEN m
    ELSE LET s == 2 * Isqrt(m \div 4)
         IN IF (s + 1) * (s + 1) <= m THEN s + 1 ELSE s

IsSquare(m) == Isqrt(m) * Isqrt(m) = m

\* number of leading digits the model keeps of an irrational square root
\* (to_chars prints 17; keep_three_sig, the only reader, keeps 3)
SqrtDigits == 3

RECURSIVE DecPlaces(_, _)
\* number of decimals of a rational whose denominator divides a power of 10
DecPlaces(den, k) == IF Pow(10, k) % den = 0 THEN k ELSE DecPlaces(den, k + 1)

RECURSIVE StripZeros(_, _)
\* an integer without its trailing zeros, and how many there were
StripZeros(n, z) ==
    IF n # 0 /\ n % 10 = 0 THEN StripZeros(n \div 10, z + 1) ELSE [s |-> n, z |-> z]

\* the exponent field of the scientific form: sign and at least two digits
SciExp(e) ==
    <<"e", IF e < 0 THEN "-" ELSE "+">>
        \o (IF Abs(e) < 10 THEN <<"0">> ELSE <<>>) \o ToChars(Abs(e))

\* std::to_chars(first, last, double) of the non-negative double whose exact
\* value is n * 10^-k: the shorter of the fixed and the scientific form, the
\* fixed one on a tie
to_chars_decimal(n, k) ==
    LET st == StripZeros(n, 0)
        sig == ToChars(st.s)
        fixed == to_string(Number(n, -k, 0), FALSE)
        sci == <<Head(sig)>>
                 \o (IF Len(sig) > 1 THEN <<".">> \o Tail(sig) ELSE <<>>)
                 \o SciExp(Len(sig) - 1 + st.z - k)
    IN IF Len(sci) < Len(fixed) THEN sci ELSE fixed

\* std::to_chars of a non-negative double that holds the rational x exactly
to_chars_double(x) ==
    LET k == DecPlaces(x.den, 0)
    IN to_chars_decimal(x.num * (Pow(10, k) \div x.den), k)

RECURSIVE SqrtScale(_, _)
\* floor(sqrt(x) * 10^k) for the least k >= 0 that gives SqrtDigits digits
SqrtScale(x, k) ==
    LET t == Pow(10, 2 * k)
        g == GCD(t, x.den)
        r == Isqrt((x.num * (t \div g)) \div (x.den \div g))
    IN IF r >= Pow(10, SqrtDigits - 1) THEN [n |-> r, k |-> k]
       ELSE SqrtScale(x, k + 1)

\* std::to_chars(std::sqrt(x)): "-nan" for a negative x, the exact root when
\* x is the square of a decimal, the leading SqrtDigits digits otherwise
\* (scientific form, hence an 'e', below 10^-4)
sqrt_chars(x) ==
    IF x.num < 0 THEN <<"-", "n", "a", "n">>
    ELSE IF IsSquare(x.num) /\ IsSquare(x.den)
         THEN to_chars_double(Rat(Isqrt(x.num), Isqrt(x.den)))
         ELSE LET r == SqrtScale(x, 0)
              IN IF r.k - digit_count(r.n) > 3
                 THEN ToChars(r.n) \o SciExp(digit_count(r.n) - 1 - r.k)
                 ELSE to_string(Number(r.n, -r.k, 0), FALSE)

\* number::from_numeric(double, sgn = 0) of a non-negative double
from_numeric(x) == from_string(to_chars_double(x))

RECURSIVE QuadLoop(_, _, _, _, _, _)
\* the for loop of quadrature_sum (Kahan summation); i is the 1-based index
QuadLoop(vec, i, sum, c, cnt, dp) ==
    IF i > Len(vec) THEN [sum |-> sum, cnt |-> cnt]
    ELSE LET e == vec[i]
             asym == e.sgn # 0
             cnt1 == IF asym THEN cnt + 1 ELSE cnt
             v == IF asym THEN RatMul(to_double(e), RatHalf) ELSE to_double(e)
             dp1 == IF asym THEN RatMul(dp, v) ELSE dp
             y0 == RatSub(RatMul(v, v), c)
             y == IF cnt1 % 2 = 0 THEN RatAdd(y0, RatMul(RatHalf, dp1)) ELSE y0
             t == RatAdd(sum, y)
         IN QuadLoop(vec, i + 1, t, RatSub(RatSub(t, sum), y), cnt1, dp1)

\* the value of the local `sum` of quadrature_sum when the loop ends
quadrature_accum(vec) == QuadLoop(vec, 1, RatZero, RatZero, 0, RatOne).sum

\* detail::quadrature_sum
quadrature_sum(vec) ==
    IF Len(vec) = 1 THEN Ok(vec[1].n, vec[1].p, vec[1].sgn)
    ELSE from_string(sqrt_chars(quadrature_accum(vec)))

\* fabs(e1 / e2 - 1.) < threshold with threshold = 0.1, in double arithmetic:
\* e2 = 0 gives inf or NaN (false); the quotient 0.9 is rounded up to the
\* double above 9/10, so that the difference to 1 is below the double 0.1
within_threshold(e1, e2) ==
    /\ e2.num # 0
    /\ \/ RatLess(RatAbs(RatSub(e1, e2)), RatMul(Rat(1, 10), e2))
       \/ RatMul(e1, Rat(10, 1)) = RatMul(e2, Rat(9, 1))

\* errors.erase(errors.begin() + i), i the 1-based position
Erase(errors, i) == SubSeq(errors, 1, i - 1) \o SubSeq(errors, i + 1, Len(errors))

RECURSIVE SymLoopKeepSgn(_, _)
\* SymLoop where the averaged entry keeps the sgn tag of the entry it replaces
SymLoopKeepSgn(errors, i) ==
    IF i <= 0 THEN [ok |-> TRUE, errors |-> errors]
    ELSE LET ne1 == errors[i + 1]
         IN IF ne1.sgn = 0 THEN SymLoopKeepSgn(errors, i - 1)
            ELSE LET ne2 == errors[i]
                     e1 == RatAbs(to_double(ne1))
                     e2 == RatAbs(to_double(ne2))
                     avg == from_numeric(RatMul(RatHalf, RatAdd(e1, e2)))
                 IN IF within_threshold(e1, e2)
                    THEN IF ~avg.ok THEN [ok |-> FALSE, errors |-> errors]
                         ELSE SymLoopKeepSgn(
                                  Erase([errors EXCEPT ![i] = Number(avg.n, avg.p, ne2.sgn)],
                                        i + 1),
                                  i - 2)
                    ELSE SymLoopKeepSgn(errors, i - 2)

RECURSIVE SymLoop(_, _)
\* the for loop of symmetrize_errors; i is the 0-based index of the source
SymLoop(errors, i) ==
    IF i <= 0 THEN [ok |-> TRUE, errors |-> errors]
    ELSE LET ne1 == errors[i + 1]
         IN IF ne1.sgn = 0 THEN SymLoop(errors, i - 1)
            ELSE LET ne2 == errors[i]
                     e1 == RatAbs(to_double(ne1))
                     e2 == RatAbs(to_double(ne2))
                     avg == from_numeric(RatMul(RatHalf, RatAdd(e1, e2)))
                 IN IF within_threshold(e1, e2)
                    THEN IF ~avg.ok THEN [ok |-> FALSE, errors |-> errors]
                         ELSE SymLoop(Erase([errors EXCEPT ![i] = NumOf(avg)], i + 1),
                                      i - 2)
                    ELSE SymLoop(errors, i - 2)

\* detail::symmetrize_errors with the default threshold
symmetrize_errors(errors) == SymLoop(errors, Len(errors) - 1)

(***************************************************************************)
(* formatting utilities                                                    *)
(***************************************************************************)
\* enum class mode_type
mode_type == {"terminal", "tex", "typst", "gnuplot"}

\* enum class format_options::round_algo
round_algo == {"pdg", "twodigits"}

\* a null labels pointer
NoLabels == [null |-> TRUE, list |-> <<>>]

\* a labels pointer to the vector list
LabelsOf(list) == [null |-> FALSE, list |-> list]

\* constexpr format_options(): the defaults
format_options == [mode |-> "terminal", algo |-> "pdg", labels |-> NoLabels,
                   symmetrize_errors |-> FALSE, prec_to_total_err |-> FALSE,
                   prec_to_larger_err |-> TRUE, factorize_powers |-> FALSE,
                   no_utf8 |-> FALSE, cdot |-> FALSE]

\* <climits>
INT_MAX == 2147483647

INT_MIN == -INT_MAX - 1

\* pdg_round or twodig_round, as opt.algo selects
round_algo_apply(algo, v) == IF algo = "pdg" THEN pdg_round(v) ELSE twodig_round(v)

\* for (auto &e : errors) detail::pdg_round(e) / twodig_round(e)
round_each(algo, errors) ==
    [ok |-> \A i \in 1..Len(errors) : round_algo_apply(algo, errors[i]).ok,
     errors |-> [i \in 1..Len(errors) |-> NumOf(round_algo_apply(algo, errors[i]))]]

\* for (auto &e : errors) detail::round_to_prec(e, prec)
round_each_to_prec(errors, prec) ==
    [ok |-> \A i \in 1..Len(errors) : round_to_prec(errors[i], prec).ok,
     errors |-> [i \in 1..Len(errors) |-> NumOf(round_to_prec(errors[i], prec))]]

RECURSIVE MaxPrecNonNeg(_, _, _)
\* MaxPrec as if prec started from 0 instead of INT_MIN
MaxPrecNonNeg(errors, i, prec) ==
    IF i > Len(errors) THEN Max(prec, 0)
    ELSE MaxPrecNonNeg(errors, i + 1, Max(prec, errors[i].p))

RECURSIVE MaxPrec(_, _, _)
\* for (auto &e : errors) prec = std::max(prec, e.p)
MaxPrec(errors, i, prec) ==
    IF i > Len(errors) THEN prec ELSE MaxPrec(errors, i + 1, Max(prec, errors[i].p))

\* the outcome of detail::round when it reaches std::exit(1)
RoundExit(central, errors) ==
    [ok |-> FALSE, central |-> central, errors |-> errors, prec |-> INT_MAX,
     tote |-> NumberDefault]

\* detail::round, its end: the values left in central and errors once the
\* central value (c) and the errors (es) have been rounded, with the locals
\* prec and tote
round_finish(central, errors, c, es, prec, tote) ==
    IF ~c.ok \/ ~es.ok THEN RoundExit(central, errors)
    ELSE [ok |-> TRUE, central |-> NumOf(c), errors |-> es.errors,
          prec |-> prec, tote |-> tote]

\* detail::round, the re-rounding: to the exponent prec when one was set,
\* with the algorithm otherwise
round_apply(central, errors, opt, each, prec, tote) ==
    IF prec # INT_MAX
    THEN round_finish(central, errors, round_to_prec(central, prec),
                      round_each_to_prec(each.errors, prec), prec, tote)
    ELSE round_finish(central, errors, round_algo_apply(opt.algo, central),
                      round_each(opt.algo, each.errors), prec, tote)

\* detail::round, the choice of prec: toteR is the rounded quadrature sum,
\* each the errors after the prec_to_larger_err block
round_larger(central, errors, opt, toteR, each) ==
    IF opt.prec_to_total_err /\ ~toteR.ok THEN RoundExit(central, errors)
    ELSE IF ~each.ok THEN RoundExit(central, errors)
    ELSE round_apply(central, errors, opt, each,
                     IF opt.prec_to_larger_err THEN MaxPrec(each.errors, 1, INT_MIN)
                     ELSE IF opt.prec_to_total_err THEN toteR.p ELSE INT_MAX,
                     IF opt.prec_to_total_err THEN NumOf(toteR) ELSE NumberDefault)

\* detail::round, the prec_to_total_err and prec_to_larger_err blocks: sym is
\* the symmetrized vector, qs its quadrature sum
round_total(central, errors, opt, sym, qs) ==
    round_larger(central, errors, opt,
                 IF qs.ok THEN round_algo_apply(opt.algo, NumOf(qs)) ELSE qs,
                 IF opt.prec_to_larger_err THEN round_each(opt.algo, sym.errors)
                 ELSE [ok |-> TRUE, errors |-> sym.errors])

\* detail::round after symmetrize_errors
round_symmetrized(central, errors, opt, sym) ==
    IF ~sym.ok THEN RoundExit(central, errors)
    ELSE round_total(central, errors, opt, sym, quadrature_sum(sym.errors))

\* detail::round: the values it leaves in central and errors, with its locals
\* prec and tote
round(central, errors, opt) ==
    round_symmetrized(central, errors, opt,
                      IF opt.symmetrize_errors THEN symmetrize_errors(errors)
                      ELSE [ok |-> TRUE, errors |-> errors])

\* bool quiet = !(opt.mode == mode_type::terminal && opt.factorize_powers)
quiet(opt) == ~(opt.mode = "terminal" /\ opt.factorize_powers)

\* a line "# warning: ..." on the standard output; what is the argument the
\* line quotes, if any
Warning(text, what) == [warning |-> text, what |-> what]

\* the line keep_three_sig prints
PaddingWarning == Warning("not enough significant digits, padding with zeros", <<>>)

\* what a call of keep_three_sig prints
keep_three_sig_diag(v, q) ==
    IF keep_three_sig_warns(v, q) THEN <<PaddingWarning>> ELSE <<>>

RECURSIVE round_each_diag(_, _, _, _)
\* what for (auto &e : errors) pdg_round(e, quiet) / twodig_round(e, quiet)
\* prints; the loop ends at the entry where pdg_rule exits
round_each_diag(algo, errors, i, q) ==
    IF i > Len(errors) THEN <<>>
    ELSE keep_three_sig_diag(errors[i], q)
         \o (IF round_algo_apply(algo, errors[i]).ok
             THEN round_each_diag(algo, errors, i + 1, q)
             ELSE <<>>)

\* what detail::round prints from its prec_to_larger_err block on; es is the
\* symmetrized vector.  round_to_prec prints no warning, so nothing follows
\* once prec is set
round_diag_larger(central, opt, es) ==
    IF opt.prec_to_larger_err THEN round_each_diag(opt.algo, es, 1, quiet(opt))
    ELSE IF opt.prec_to_total_err THEN <<>>
    ELSE keep_three_sig_diag(central, quiet(opt))
         \o (IF round_algo_apply(opt.algo, central).ok
             THEN round_each_diag(opt.algo, es, 1, quiet(opt))
             ELSE <<>>)

\* what detail::round prints once the quadrature sum qs is there
round_diag_tote(central, opt, es, qs) ==
    IF ~qs.ok THEN <<>>
    ELSE keep_three_sig_diag(NumOf(qs), quiet(opt))
         \o (IF round_algo_apply(opt.algo, NumOf(qs)).ok
             THEN round_diag_larger(central, opt, es)
             ELSE <<>>)

\* what detail::round prints after symmetrize_errors
round_diag_sym(central, opt, sym) ==
    IF ~sym.ok THEN <<>>
    ELSE IF opt.prec_to_total_err
         THEN round_diag_tote(central, opt, sym.errors, quadrature_sum(sym.errors))
         ELSE round_diag_larger(central, opt, sym.errors)

\* the line symmetrize_errors prints
PairingWarning == Warning("asymmetric errors do not seem to come in pairs", <<>>)

RECURSIVE SymDiagLoop(_, _)
\* what the for loop of symmetrize_errors prints: the line comes before the
\* threshold test, which follows it unconditionally
SymDiagLoop(errors, i) ==
    IF i <= 0 THEN <<>>
    ELSE IF errors[i + 1].sgn = 0 THEN SymDiagLoop(errors, i - 1)
    ELSE (IF errors[i].sgn = 0 THEN <<PairingWarning>> ELSE <<>>)
         \o (IF ~SymLoop(errors, i).ok THEN <<>>
             ELSE IF within_threshold(RatAbs(to_double(errors[i + 1])),
                                      RatAbs(to_double(errors[i])))
                  THEN SymDiagLoop(SubSeq(errors, 1, i - 1), i - 2)
                  ELSE SymDiagLoop(errors, i - 2))

\* what detail::symmetrize_errors prints
symmetrize_errors_diag(errors) == SymDiagLoop(errors, Len(errors) - 1)

\* the warning lines detail::round prints, in order
round_diag(central, errors, opt) ==
    (IF opt.symmetrize_errors THEN symmetrize_errors_diag(errors) ELSE <<>>)
    \o round_diag_sym(central, opt,
                      IF opt.symmetrize_errors THEN symmetrize_errors(errors)
                      ELSE [ok |-> TRUE, errors |-> errors])

\* struct symbol_table
SymbolTable(x, xa, pm, po, pc, co, cc, cs, to, tc) ==
    [x |-> x, xa |-> xa, pm |-> pm, po |-> po, pc |-> pc, co |-> co, cc |-> cc,
     cs |-> cs, to |-> to, tc |-> tc]

\* formatter::table_
table_ == [m \in mode_type |->
    CASE m = "terminal" ->
           SymbolTable(<<"×">>, <<"·">>, <<"±">>, <<"(">>, <<")">>,
                       <<>>, <<>>, <<>>, <<>>, <<>>)
      [] m = "tex" ->
           SymbolTable(<<" ", "\\", "t", "i", "m", "e", "s", " ">>,
                       <<"\\", "c", "d", "o", "t">>,
                       <<"\\", "p", "m">>,
                       <<"\\", "l", "e", "f", "t", "(", " ">>,
                       <<" ", "\\", "r", "i", "g", "h", "t", ")">>,
                       <<"{">>, <<"}">>, <<"\\", ",">>,
                       <<"\\", "t", "e", "x", "t", "{">>, <<"}">>)
      [] m = "typst" ->
           SymbolTable(<<" ", "t", "i", "m", "e", "s", " ">>,
                       <<" ", "d", "o", "t", ".", "o", "p", " ">>,
                       <<" ", "p", "l", "u", "s", ".", "m", "i", "n", "u", "s", " ">>,
                       <<"(">>, <<")">>, <<"(">>, <<")">>,
                       <<"#", "h", "(", "0", ".", "0", "e", "m", ")">>,
                       <<"\"">>, <<"\"">>)
      [] m = "gnuplot" ->
           SymbolTable(<<"×">>, <<"·", " ">>, <<"±">>, <<"(">>, <<")">>,
                       <<"{">>, <<"}">>, <<>>, <<>>, <<>>)]

\* the function-local static `ascii` of formatter::symbols before its
\* initialisation
AsciiUninit == [init |-> FALSE, base |-> "terminal"]

\* the static `ascii` once it has been initialised from the table of mode m
AsciiFrom(m) == [init |-> TRUE, base |-> m]

\* formatter::symbols: ascii is the state of the static before the call
symbols(opt, ascii) ==
    LET base == table_[opt.mode]
        b == table_[IF ascii.init THEN ascii.base ELSE opt.mode]
    IN IF ~opt.no_utf8 THEN base
       ELSE SymbolTable(<<"x">>, <<".">>, <<"+", "/", "-">>, b.po, b.pc, b.co, b.cc,
                        b.cs, b.to, b.tc)

\* std::to_string(int)
IntToString(i) == IF i < 0 THEN <<"-">> \o ToChars(-i) ELSE ToChars(i)

\* e.sgn != 0 in gnuplot, tex or typst mode
IsScript(e, opt) == e.sgn # 0 /\ opt.mode \in {"gnuplot", "tex", "typst"}

\* opt_.labels && opt_.labels->size() && cnt_label % 2 == 0
EmitsLabel(opt, cnt_label) ==
    ~opt.labels.null /\ Len(opt.labels.list) > 0 /\ cnt_label % 2 = 0

\* LabelAt indexed by the entry count instead of the pair count
LabelAtEntry(opt, cnt_label, junk) ==
    IF cnt_label - 1 <= Len(opt.labels.list)
    THEN opt.labels.list[cnt_label - 1]
    ELSE junk

\* (*opt_.labels)[cnt_label / 2 - 1]; junk is what a read past the end yields
LabelAt(opt, cnt_label, junk) ==
    IF cnt_label \div 2 <= Len(opt.labels.list)
    THEN opt.labels.list[cnt_label \div 2]
    ELSE junk

RECURSIVE FormatErrors(_, _, _, _, _, _)
\* the "errors" loop of formatter::format: the text it appends
FormatErrors(errors, i, cnt_label, opt, sy, junk) ==
    IF i > Len(errors) THEN <<>>
    ELSE LET e == errors[i]
             cnt1 == IF e.sgn = 0 THEN cnt_label + 1 ELSE cnt_label
             cnt2 == cnt1 + 1
         IN <<" ">>
            \o (IF IsScript(e, opt)
                THEN (IF cnt_label % 2 = 0 THEN sy.cs ELSE <<>>)
                     \o <<IF e.sgn = 1 THEN "^" ELSE "_">> \o sy.co
                ELSE <<>>)
            \o (IF e.sgn = 0 THEN sy.pm \o <<" ">>
                ELSE IF e.sgn = 1 THEN <<"+">> ELSE <<>>)
            \o to_string(e, opt.factorize_powers)
            \o (IF IsScript(e, opt) THEN sy.cc ELSE <<>>)
            \o (IF EmitsLabel(opt, cnt2)
                THEN <<" ">> \o sy.to \o LabelAt(opt, cnt2, junk) \o sy.tc
                ELSE <<>>)
            \o FormatErrors(errors, i + 1, cnt2, opt, sy, junk)

RECURSIVE LabelReads(_, _, _, _)
\* the indexes cnt_label / 2 - 1 at which the "errors" loop of
\* formatter::format reads (*opt_.labels)
LabelReads(errors, i, cnt_label, opt) ==
    IF i > Len(errors) THEN {}
    ELSE LET cnt2 == cnt_label + (IF errors[i].sgn = 0 THEN 2 ELSE 1)
         IN (IF EmitsLabel(opt, cnt2) THEN {cnt2 \div 2 - 1} ELSE {})
            \cup LabelReads(errors, i + 1, cnt2, opt)

\* formatter::format
formatter_format(central, errors, opt, ascii, junk) ==
    LET sy == symbols(opt, ascii)
        fact == opt.factorize_powers /\ central.p # 0
    IN (IF fact THEN sy.po ELSE <<>>)
       \o to_string(central, opt.factorize_powers)
       \o FormatErrors(errors, 1, 0, opt, sy, junk)
       \o (IF fact
           THEN sy.pc \o (IF opt.cdot THEN sy.xa ELSE sy.x) \o <<"1", "0">>
                \o (IF central.p # 1
                    THEN <<"^">> \o sy.co \o IntToString(central.p) \o sy.cc
                    ELSE <<>>)
           ELSE <<>>)

RECURSIVE LabelCounts(_, _, _)
\* the values cnt_label takes after each entry of the "errors" loop
LabelCounts(errors, i, cnt_label) ==
    IF i > Len(errors) THEN <<>>
    ELSE LET c == cnt_label + (IF errors[i].sgn = 0 THEN 2 ELSE 1)
         IN <<c>> \o LabelCounts(errors, i + 1, c)

\* whether formatter::format calls symbols() at all, which initialises the
\* static `ascii` when no_utf8 is set
CallsSymbols(central, errors, opt) ==
    \/ opt.factorize_powers /\ central.p # 0
    \/ \E i \in 1..Len(errors) :
          \/ errors[i].sgn = 0
          \/ IsScript(errors[i], opt)
          \/ EmitsLabel(opt, LabelCounts(errors, 1, 0)[i])

\* the static `ascii` after a call of formatter::format
AsciiAfter(central, errors, opt, ascii) ==
    IF opt.no_utf8 /\ ~ascii.init /\ CallsSymbols(central, errors, opt)
    THEN AsciiFrom(opt.mode)
    ELSE ascii

\* format_numbers after detail::round: r is what round left
format_rounded(r, opt, ascii, junk) ==
    [ok |-> r.ok, errors |-> r.errors, central |-> r.central,
     prec |-> r.prec, tote |-> r.tote,
     out |-> IF r.ok THEN formatter_format(r.central, r.errors, opt, ascii, junk)
             ELSE <<>>,
     ascii |-> IF r.ok THEN AsciiAfter(r.central, r.errors, opt, ascii)
               ELSE ascii]

\* format_numbers: detail::round, then formatter::format
format_numbers(value, errors, opt, ascii, junk) ==
    format_rounded(round(value, errors, opt), opt, ascii, junk)

\* rounder::format(val, err, opt) for a string-like value and a container of
\* string-like errors: from_anything on each, then format_numbers
format(val, err, opt, ascii, junk) ==
    IF from_string(val).ok /\ \A i \in 1..Len(err) : from_string(err[i]).ok
    THEN format_numbers(NumOf(from_string(val)),
                        [i \in 1..Len(err) |-> NumOf(from_string(err[i]))],
                        opt, ascii, junk)
    ELSE [ok |-> FALSE, errors |-> <<>>, central |-> NumberDefault,
          prec |-> INT_MAX, tote |-> NumberDefault, out |-> <<>>,
          ascii |-> ascii]

\* the warning lines a call of rounder::format prints
format_diag(val, err, opt) ==
    IF from_string(val).ok /\ \A i \in 1..Len(err) : from_string(err[i]).ok
    THEN round_diag(NumOf(from_string(val)),
                    [i \in 1..Len(err) |-> NumOf(from_string(err[i]))], opt)
    ELSE <<>>

(***************************************************************************)
(* fmt::formatter<rounder::measurement>                                    *)
(***************************************************************************)
\* the switch of parse: the options after the flag character c
parse_flag(c, opts) ==
    CASE c = "c" -> [opts EXCEPT !.algo = "twodigits", !.prec_to_total_err = TRUE]
      [] c = "e" -> [opts EXCEPT !.prec_to_total_err = TRUE]
      [] c = "l" -> [opts EXCEPT !.prec_to_larger_err = TRUE]
      [] c = "p" -> [opts EXCEPT !.algo = "pdg"]
      [] c = "s" -> [opts EXCEPT !.symmetrize_errors = TRUE]
      [] c = "t" -> [opts EXCEPT !.algo = "twodigits"]
      [] c = "D" -> [opts EXCEPT !.cdot = TRUE]
      [] c = "F" -> [opts EXCEPT !.factorize_powers = TRUE]
      [] c = "G" -> [opts EXCEPT !.mode = "gnuplot"]
      [] c = "T" -> [opts EXCEPT !.mode = "typst"]
      [] c = "U" -> [opts EXCEPT !.no_utf8 = TRUE]
      [] c = "X" -> [opts EXCEPT !.mode = "tex"]
      [] OTHER -> opts

RECURSIVE ParseLoop(_, _, _)
\* while (i != end && *i != '}'): i is the 1-based position in the parse
\* context ctx, Len(ctx) + 1 its end
ParseLoop(ctx, i, opts) ==
    IF i # Len(ctx) + 1 /\ ctx[i] # "}"
    THEN ParseLoop(ctx, i + 1, parse_flag(ctx[i], opts))
    ELSE [i |-> i, opts |-> opts]

\* the end of parse: the test that throws format_error, and the return
parse_end(ctx, r) ==
    [ok |-> ~(r.i # Len(ctx) + 1 /\ ctx[r.i] # "}"), i |-> r.i, opts |-> r.opts]

\* fmt::formatter<rounder::measurement>::parse on a formatter whose opts_
\* holds opts
parse(ctx, opts) ==
    parse_end(ctx, ParseLoop(ctx, 1, [opts EXCEPT !.algo = "twodigits",
                                                  !.prec_to_total_err = TRUE]))

(***************************************************************************)
(* round.cc: the command-line front end                                    *)
(***************************************************************************)
\* is_digit
is_digit(c) == IsDigit(c)

\* c[k] of a C string, k 0-based: the terminating '\0' is the empty string
CharAt(c, k) == IF k < Len(c) THEN c[k + 1] ELSE ""

\* is_number
is_number(c) ==
    IF Len(c) < 1 THEN FALSE
    ELSE \/ is_digit(CharAt(c, 0))
         \/ CharAt(c, 0) \in {"-", "+"} /\ is_digit(CharAt(c, 1))
         \/ CharAt(c, 1) = "." /\ Len(c) > 2 /\ is_digit(CharAt(c, 2))

RECURSIVE Find(_, _, _)
\* txt.find(ch) from the 1-based position i; 0 stands for npos
Find(txt, ch, i) ==
    IF i > Len(txt) THEN 0 ELSE IF txt[i] = ch THEN i ELSE Find(txt, ch, i + 1)

RECURSIVE parse_list(_)
\* parse_list: the trimmed, non-empty pieces between commas
parse_list(txt) ==
    IF txt = <<>> THEN <<>>
    ELSE LET at == Find(txt, ",", 1)
             token == TrimBack(TrimFront(IF at = 0 THEN txt
                                         ELSE SubSeq(txt, 1, at - 1)))
         IN (IF token # <<>> THEN <<token>> ELSE <<>>)
            \o parse_list(IF at = 0 THEN <<>> ELSE SubSeq(txt, at + 1, Len(txt)))

\* the locals of main before the loop over argv
MainStart ==
    [from_stdin |-> FALSE, opts |-> format_options, val |-> <<>>, errors |-> <<>>,
     diag |-> <<>>, returned |-> FALSE]

\* the switch (c[1]) of main for an argument c that is neither a number nor
\* -L: the locals after it.  Case 'N' assigns opts.trailing_newline, which is
\* not a member of the format_options modelled here
main_switch(c, st) ==
    CASE CharAt(c, 1) = "h" -> [st EXCEPT !.returned = TRUE]
      [] CharAt(c, 1) = "" -> [st EXCEPT !.from_stdin = TRUE]
      [] CharAt(c, 1) = "c" ->
           [st EXCEPT !.opts.algo = "twodigits", !.opts.prec_to_total_err = TRUE]
      [] CharAt(c, 1) = "e" -> [st EXCEPT !.opts.prec_to_total_err = TRUE]
      [] CharAt(c, 1) = "p" -> [st EXCEPT !.opts.algo = "pdg"]
      [] CharAt(c, 1) = "s" -> [st EXCEPT !.opts.symmetrize_errors = TRUE]
      [] CharAt(c, 1) = "t" -> [st EXCEPT !.opts.algo = "twodigits"]
      [] CharAt(c, 1) = "w" -> [st EXCEPT !.opts.prec_to_larger_err = TRUE]
      [] CharAt(c, 1) = "D" -> [st EXCEPT !.opts.cdot = TRUE]
      [] CharAt(c, 1) = "F" -> [st EXCEPT !.opts.factorize_powers = TRUE]
      [] CharAt(c, 1) = "G" -> [st EXCEPT !.opts.mode = "gnuplot"]
      [] CharAt(c, 1) = "N" -> st
      [] CharAt(c, 1) = "T" -> [st EXCEPT !.opts.mode = "typst"]
      [] CharAt(c, 1) = "U" -> [st EXCEPT !.opts.no_utf8 = TRUE]
      [] CharAt(c, 1) = "X" -> [st EXCEPT !.opts.mode = "tex"]
      [] OTHER ->
           [st EXCEPT !.diag = Append(@, Warning("option {} not recognized", c))]

RECURSIVE MainLoop(_, _, _)
\* for (int i = 1; i < argc; ++i): argv holds the arguments after the
\* program name, i is the 1-based position in it
MainLoop(argv, i, st) ==
    IF i > Len(argv) \/ st.returned THEN st
    ELSE IF is_number(argv[i]) /\ ~st.from_stdin
         THEN MainLoop(argv, i + 1,
                       IF st.val = <<>> THEN [st EXCEPT !.val = argv[i]]
                       ELSE [st EXCEPT !.errors = Append(@, argv[i])])
         ELSE IF CharAt(argv[i], 1) = "L"
              THEN MainLoop(argv, i + 2,
                            [st EXCEPT !.opts.labels = LabelsOf(parse_list(argv[i + 1]))])
              ELSE MainLoop(argv, i + 1, main_switch(argv[i], st))

\* the end of main: fmt::print("{}", rounder::format(val, errors, opts)),
\* unless case 'h' returned before
main_print(st, r, ascii, d) ==
    IF st.returned
    THEN [ok |-> TRUE, out |-> <<>>, diag |-> st.diag, opts |-> st.opts,
          ascii |-> ascii]
    ELSE [ok |-> r.ok, out |-> r.out, diag |-> st.diag \o d, opts |-> st.opts,
          ascii |-> r.ascii]

\* main, with the locals st the loop leaves
main_end(st, ascii, junk) ==
    main_print(st, format(st.val, st.errors, st.opts, ascii, junk), ascii,
               format_diag(st.val, st.errors, st.opts))

\* main of round.cc: what it prints (the warning lines, then the string of
\* format) and the options it leaves in opts
main(argv, ascii, junk) == main_end(MainLoop(argv, 1, MainStart), ascii, junk)

(***************************************************************************)
(* The inputs the model draws.                                             *)
(***************************************************************************)
\* characters of the tokens handed to from_string
Alphabet == {"0", "5", ".", "+", "a", " "}

\* every string over Alphabet of at most MaxTokLen characters
ShortTokens == UNION {[1..k -> Alphabet] : k \in 0..MaxTokLen}

\* the malformed tokens "1.2.3" and "12a"
Tok123 == <<"1", ".", "2", ".", "3">>

Tok12a == <<"1", "2", "a">>

\* tokens at the edge of the mantissa width
EdgeTokens ==
    LET top == ToChars(UintMax)
        over == ToChars(UintMax + 1)
        long == ToChars(UintMax * 10)
    IN {top, over, long, <<"0">> \o top, <<"0", ".">> \o top, <<"-">> \o over,
        <<Head(top), ".">> \o Tail(top), <<Head(over), ".">> \o Tail(over),
        <<" ", "+">> \o top \o <<" ">>, Tok123, Tok12a}

\* digit sequences whose value is next to the largest mantissa, below and
\* above it, with and without a decimal point and leading zeros
WidthTokens ==
    UNION {{ToChars(k), <<"0", "0">> \o ToChars(k), ToChars(k) \o <<".">>,
            <<"-", "0", ".">> \o ToChars(k)} :
              k \in ((UintMax - 6)..(UintMax + 6))
                    \cup {(UintMax \div 10) * 10 + 9, UintMax * 10 + 5}}

Tokens == ShortTokens \cup EdgeTokens \cup WidthTokens

\* numbers handed to the rounding helpers: mantissas of one to four digits,
\* every 3-digit one among them, at the smallest, the largest and exponent 0
HelperNumbers ==
    [n : {0, 5} \cup (95..MaxMant), p : {-MaxExp, 0, MaxExp}, sgn : {-1, 0, 1}]

\* numbers serialized by to_string: small mantissas and those at the edge of
\* the mantissa width
StringNumbers ==
    [n : (0..(MaxMant \div 8)) \cup {UintMax \div 100, UintMax \div 10,
                                     UintMax \div 10 + 1, UintMax - 1, UintMax},
     p : (-MaxExp)..MaxExp, sgn : {-1, 0, 1}]

\* numbers handed to keep_three_sig, pdg_round and round_to_prec: the small
\* mantissas, carries at the top of three digits and the widest mantissa
SmallNumbers ==
    [n : (0..(MaxMant \div 4)) \cup {995, 999, UintMax},
     p : {-MaxExp, 0, MaxExp}, sgn : {-1, 0}]

\* target exponents handed to round_to_prec
PrecTargets == (-MaxExp)..(MaxExp + 1)

\* mantissas of the integer-valued uncertainties: 0, the 3-4-5 triangle and
\* the neighbours 9 and 10 at the 10 % threshold of symmetrize_errors
ErrMants == {0, 3, 4, 9, 10}

\* the entries of the uncertainty vectors: symmetric ones, and asymmetric
\* ones at the threshold
ErrEntries ==
    [n : ErrMants, p : {0}, sgn : {0}] \cup [n : {9, 10}, p : {0}, sgn : {-1, 1}]

\* uncertainty vectors of 1..MaxErrs integer-valued entries
ErrLists == UNION {[1..k -> ErrEntries] : k \in 1..MaxErrs}

\* uncertainty vectors handed to detail::round
RoundErrLists ==
    UNION {[1..k -> [n : {0, 2, 12}, p : {0}, sgn : {0}]
                       \cup [n : {4}, p : {0}, sgn : {-1, 1}]] :
             k \in 0..(MaxErrs - 1)}

\* uncertainty vectors whose entries differ by an order of magnitude, the
\* smaller one with a 5 or a 4 as its third digit
MixedErrLists ==
    {<<Number(2134, 0, 0), Number(m, 0, 0)>> : m \in {144, 145, 354, 355}}
    \cup {<<Number(145, 0, 0), Number(2134, 0, 0)>>}

\* central values handed to detail::round
RoundCentrals == {Number(27432, -3, 0), Number(5, 0, -1)}

\* option sets handed to detail::round (the other options are not read
\* there; of the modes it only tells terminal from the rest)
RoundOptions ==
    {[format_options EXCEPT !.algo = a, !.symmetrize_errors = s,
                            !.prec_to_total_err = t, !.prec_to_larger_err = l,
                            !.mode = m, !.factorize_powers = f] :
        a \in round_algo, s \in BOOLEAN, t \in BOOLEAN, l \in BOOLEAN,
        m \in {"terminal", "tex"}, f \in BOOLEAN}

\* the tokens of the README examples
Tok27432 == <<"2", "7", ".", "4", "3", "2">>

Tok27462 == <<"2", "7", ".", "4", "6", "2">>

\* an integer central value
Tok27 == <<"2", "7">>

Errs1 == << <<"2", ".", "1", "3", "4">>, <<"0", ".", "1", "2", "5">> >>

Errs2 == << <<"+", "0", ".", "3", "1", "3", "4">>, <<"-", "0", ".", "2", "9", "2">>,
            <<"0", ".", "0", "1", "2", "4">> >>

LabStat == <<"(", "s", "t", "a", "t", ")">>

LabSyst == <<"(", "s", "y", "s", "t", ")">>

LabTheo == <<"(", "t", "h", "e", "o", ")">>

\* label vectors handed to format
FormatLabels == {NoLabels, LabelsOf(<<LabStat>>), LabelsOf(<<LabStat, LabSyst>>),
                 LabelsOf(<<LabStat, LabSyst, LabTheo>>)}

\* option sets handed to format.  symmetrize_errors stays off here: the
\* average of two fractional doubles carries binary noise digits that the
\* rational arithmetic of the model does not reproduce.
FormatOptions ==
    {[format_options EXCEPT !.mode = m, !.algo = a, !.labels = lb,
                            !.prec_to_total_err = t, !.prec_to_larger_err = l,
                            !.factorize_powers = f, !.no_utf8 = u, !.cdot = c] :
        m \in mode_type, a \in round_algo, lb \in FormatLabels, t \in BOOLEAN,
        l \in BOOLEAN, f \in BOOLEAN, u \in BOOLEAN, c \in BOOLEAN}

\* option sets handed to format_numbers by a caller that keeps its vector
NumbersOptions ==
    {[format_options EXCEPT !.algo = a, !.symmetrize_errors = s,
                            !.prec_to_total_err = t, !.prec_to_larger_err = l] :
        a \in round_algo, s \in BOOLEAN, t \in BOOLEAN, l \in BOOLEAN}

\* option sets of the calls of a sequence of format calls in one process
SeqOptions ==
    {[format_options EXCEPT !.mode = m, !.no_utf8 = u, !.factorize_powers = f] :
        m \in mode_type, u \in BOOLEAN, f \in BOOLEAN}

\* the flag characters of parse, and one it does not know
FlagChars == {"c", "e", "l", "p", "s", "t", "D", "F", "G", "L", "N", "T", "U", "X",
              "z"}

\* parse contexts: up to MaxFlags flag characters, then the end of the
\* format string, the closing brace, or the brace and more text
ParseContexts ==
    {f \o tail : f \in UNION {[1..k -> FlagChars] : k \in 0..MaxFlags},
                 tail \in {<<>>, <<"}">>, <<"}", "t">>}}

\* what a read past the end of the label vector may yield
JunkLabels == {<<>>, <<"?">>}

\* the option letters of the command line: those of the README's table, 'w',
\* 'h', the lone '-' and one letter nobody knows
CliLetters == {"c", "e", "l", "p", "s", "t", "w", "D", "F", "G", "L", "N", "T", "U",
               "X", "h", "z", ""}

\* the option arguments
CliFlags == {IF c = "" THEN <<"-">> ELSE <<"-", c>> : c \in CliLetters}

\* the arguments that follow the options in README example 1
CliExampleTail ==
    <<Tok27432, Errs1[1], Errs1[2], <<"-", "L">>,
      LabStat \o <<",">> \o LabSyst>>

\* command lines: up to MaxFlags options, then the numbers and labels of
\* README example 1
CommandLines ==
    {f \o CliExampleTail : f \in UNION {[1..k -> CliFlags] : k \in 0..MaxFlags}}

\* the arguments of one call: which operation, and its inputs
Call(scn, tok, num, errs, val, err, o) ==
    [scn |-> scn, tok |-> tok, v |-> num, errors |-> errs, val |-> val,
     err |-> err, opt |-> o, argv |-> <<>>]

(***************************************************************************)
(* The state.                                                              *)
(***************************************************************************)
VARIABLES
    arg,      \* the call under way: operation and arguments as passed
    hist,     \* the operations completed so far, in order
    str,      \* the string being parsed or the last serialization
    v,        \* the number the operation works on (number&)
    central,  \* the central value (number&)
    errors,   \* the uncertainty vector (std::vector<number>&)
    sum,      \* the local `sum` of quadrature_sum
    tote,     \* the local `tote` of detail::round / result of quadrature_sum
    prec,     \* the local `prec` of detail::round
    out,      \* the string returned by format
    ascii,    \* the function-local static of formatter::symbols
    opt_,     \* the options of the call under way (formatter::opt_, opts_)
    diag,     \* the warning lines printed so far
    pos,      \* the iterator returned by fmt::formatter::parse
    fatal     \* std::exit(1) was reached, or an exception left the call

vars == <<arg, hist, str, v, central, errors, sum, tote, prec, out, ascii,
          opt_, diag, pos, fatal>>

Init ==
    /\ \/ \E t \in Tokens :
             arg = Call("from_string", t, NumberDefault, <<>>, <<>>, <<>>,
                        format_options)
       \/ \E x \in StringNumbers :
             arg = Call("round_trip", <<>>, x, <<>>, <<>>, <<>>, format_options)
       \/ \E s \in {"pdg_rule", "twodig_round"}, x \in HelperNumbers :
             arg = Call(s, <<>>, x, <<>>, <<>>, <<>>, format_options)
       \/ \E s \in {"quadrature_sum", "symmetrize_errors"}, es \in ErrLists :
             arg = Call(s, <<>>, NumberDefault, es, <<>>, <<>>, format_options)
       \/ \E c \in RoundCentrals, es \in RoundErrLists, o \in RoundOptions :
             arg = Call("round", <<>>, c, es, <<>>, <<>>, o)
       \/ \E c \in RoundCentrals, es \in MixedErrLists,
              o \in {x \in RoundOptions : ~x.prec_to_total_err} :
             arg = Call("round", <<>>, c, es, <<>>, <<>>, o)
       \/ \E val \in {Tok27432, Tok27462, Tok27, Tok12a}, err \in {Errs1, Errs2},
              o \in FormatOptions :
             arg = Call("format", <<>>, NumberDefault, <<>>, val, err, o)
       \/ \E ctx \in ParseContexts :
             arg = Call("parse", ctx, NumberDefault, <<>>, <<>>, <<>>,
                        format_options)
       \/ \E argv \in CommandLines :
             arg = [Call("main", <<>>, NumberDefault, <<>>, <<>>, <<>>,
                         format_options) EXCEPT !.argv = argv]
       \/ \E es \in RoundErrLists, o \in NumbersOptions :
             arg = Call("format_numbers", <<>>, Number(27432, -3, 0), es, <<>>,
                        <<>>, o)
       \/ \E s \in {"keep_three_sig", "pdg_round", "round_to_prec"},
              x \in SmallNumbers :
             arg = Call(s, <<>>, x, <<>>, <<>>, <<>>, format_options)
       \/ arg = Call("format_seq", <<>>, NumberDefault, <<>>, Tok27432, Errs2,
                     format_options)
    /\ hist = <<>>
    /\ str = arg.tok
    /\ v = arg.v
    /\ central = arg.v
    /\ errors = arg.errors
    /\ sum = RatZero
    /\ tote = NumberDefault
    /\ prec = INT_MAX
    /\ out = <<>>
    /\ ascii = AsciiUninit
    /\ opt_ = arg.opt
    /\ diag = <<>>
    /\ pos = 0
    /\ fatal = FALSE

\* number::from_string on str
FromString ==
    /\ ~fatal
    /\ \/ arg.scn = "from_string" /\ hist = <<>>
       \/ arg.scn = "round_trip" /\ hist = <<"to_string">>
    /\ \E r \in {from_string(str)} :
          /\ v' = IF r.ok THEN NumOf(r) ELSE v
          /\ fatal' = ~r.ok
    /\ hist' = Append(hist, "from_string")
    /\ UNCHANGED <<arg, str, central, errors, sum, tote, prec, out, ascii, opt_, diag, pos>>

\* number::to_string on v
ToStringOp ==
    /\ ~fatal
    /\ arg.scn = "round_trip"
    /\ hist \in {<<>>, <<"to_string", "from_string">>}
    /\ str' = to_string(v, FALSE)
    /\ hist' = Append(hist, "to_string")
    /\ UNCHANGED <<arg, v, central, errors, sum, tote, prec, out, ascii, fatal, opt_, diag, pos>>

\* detail::pdg_rule on v
PdgRule ==
    /\ ~fatal
    /\ arg.scn = "pdg_rule" /\ hist = <<>>
    /\ \E r \in {pdg_rule(v)} :
          /\ v' = IF r.ok THEN NumOf(r) ELSE v
          /\ fatal' = ~r.ok
    /\ hist' = Append(hist, "pdg_rule")
    /\ UNCHANGED <<arg, str, central, errors, sum, tote, prec, out, ascii, opt_, diag, pos>>

\* detail::twodig_round on v
TwodigRound ==
    /\ ~fatal
    /\ arg.scn = "twodig_round" /\ hist = <<>>
    /\ \E r \in {twodig_round(v)} :
          /\ v' = IF r.ok THEN NumOf(r) ELSE v
          /\ fatal' = ~r.ok
    /\ \E q \in BOOLEAN : diag' = diag \o keep_three_sig_diag(v, q)
    /\ hist' = Append(hist, "twodig_round")
    /\ UNCHANGED <<arg, str, central, errors, sum, tote, prec, out, ascii, opt_, pos>>

\* detail::keep_three_sig on v
KeepThreeSig ==
    /\ ~fatal
    /\ arg.scn = "keep_three_sig" /\ hist = <<>>
    /\ v' = keep_three_sig(v)
    /\ \E q \in BOOLEAN : diag' = diag \o keep_three_sig_diag(v, q)
    /\ hist' = Append(hist, "keep_three_sig")
    /\ UNCHANGED <<arg, str, central, errors, sum, tote, prec, out, ascii, opt_,
                   pos, fatal>>

\* detail::pdg_round on v
PdgRound ==
    /\ ~fatal
    /\ arg.scn = "pdg_round" /\ hist = <<>>
    /\ \E r \in {pdg_round(v)} :
          /\ v' = IF r.ok THEN NumOf(r) ELSE keep_three_sig(v)
          /\ fatal' = ~r.ok
    /\ \E q \in BOOLEAN : diag' = diag \o keep_three_sig_diag(v, q)
    /\ hist' = Append(hist, "pdg_round")
    /\ UNCHANGED <<arg, str, central, errors, sum, tote, prec, out, ascii, opt_, pos>>

\* detail::round_to_prec on v, to a target exponent
RoundToPrec ==
    /\ ~fatal
    /\ arg.scn = "round_to_prec" /\ hist = <<>>
    /\ \E target \in PrecTargets :
          /\ prec' = target
          /\ \E r \in {round_to_prec(v, target)} :
                /\ v' = IF r.ok THEN NumOf(r) ELSE v
                /\ fatal' = ~r.ok
    /\ hist' = Append(hist, "round_to_prec")
    /\ UNCHANGED <<arg, str, central, errors, sum, tote, out, ascii, opt_, diag, pos>>

\* detail::quadrature_sum on errors
QuadratureSum ==
    /\ ~fatal
    /\ arg.scn = "quadrature_sum" /\ hist = <<>>
    /\ \E r \in {quadrature_sum(errors)} :
          /\ tote' = IF r.ok THEN NumOf(r) ELSE tote
          /\ fatal' = ~r.ok
    /\ sum' = IF Len(errors) = 1 THEN sum ELSE quadrature_accum(errors)
    /\ hist' = Append(hist, "quadrature_sum")
    /\ UNCHANGED <<arg, str, v, central, errors, prec, out, ascii, opt_, diag, pos>>

\* detail::symmetrize_errors on errors, in place
Symmetrize ==
    /\ ~fatal
    /\ arg.scn = "symmetrize_errors" /\ Len(hist) < MaxCalls
    /\ \E r \in {symmetrize_errors(errors)} :
          /\ errors' = IF r.ok THEN r.errors ELSE errors
          /\ fatal' = ~r.ok
    /\ diag' = diag \o symmetrize_errors_diag(errors)
    /\ hist' = Append(hist, "symmetrize_errors")
    /\ UNCHANGED <<arg, str, v, central, sum, tote, prec, out, ascii, opt_, pos>>

\* detail::round on central and errors, in place
Round ==
    /\ ~fatal
    /\ arg.scn = "round" /\ hist = <<>>
    /\ \E r \in {round(central, errors, arg.opt)} :
          /\ central' = r.central
          /\ errors' = r.errors
          /\ prec' = r.prec
          /\ tote' = r.tote
          /\ fatal' = ~r.ok
    /\ diag' = diag \o round_diag(central, errors, arg.opt)
    /\ hist' = Append(hist, "round")
    /\ UNCHANGED <<arg, str, v, sum, out, ascii, opt_, pos>>

\* rounder::format(val, err, opt)
Format ==
    /\ ~fatal
    /\ arg.scn = "format" /\ hist = <<>>
    /\ \E junk \in JunkLabels :
          \E r \in {format(arg.val, arg.err, arg.opt, ascii, junk)} :
             /\ out' = r.out
             /\ central' = r.central
             /\ errors' = r.errors
             /\ prec' = r.prec
             /\ tote' = r.tote
             /\ ascii' = r.ascii
             /\ fatal' = ~r.ok
    /\ diag' = diag \o format_diag(arg.val, arg.err, arg.opt)
    /\ hist' = Append(hist, "format")
    /\ UNCHANGED <<arg, str, v, sum, opt_, pos>>

\* one more call of rounder::format(val, err, opt) in the same process, with
\* the options of this call
FormatSeq ==
    /\ ~fatal
    /\ arg.scn = "format_seq" /\ Len(hist) < MaxCalls
    /\ \E o \in SeqOptions :
          /\ \E r \in {format(arg.val, arg.err, o, ascii, <<>>)} :
                /\ out' = r.out
                /\ central' = r.central
                /\ errors' = r.errors
                /\ prec' = r.prec
                /\ tote' = r.tote
                /\ ascii' = r.ascii
                /\ fatal' = ~r.ok
          /\ diag' = diag \o format_diag(arg.val, arg.err, o)
          /\ opt_' = o
    /\ hist' = Append(hist, "format")
    /\ UNCHANGED <<arg, str, v, sum, pos>>

\* fmt::formatter<rounder::measurement>::parse on the context str
Parse ==
    /\ ~fatal
    /\ arg.scn = "parse" /\ hist = <<>>
    /\ \E r \in {parse(str, opt_)} :
          /\ opt_' = r.opts
          /\ pos' = r.i
          /\ fatal' = ~r.ok
    /\ hist' = Append(hist, "parse")
    /\ UNCHANGED <<arg, str, v, central, errors, sum, tote, prec, out, ascii, diag>>

\* format_numbers(central, errors, opt): the value is passed by value, the
\* vector by reference
FormatNumbers ==
    /\ ~fatal
    /\ arg.scn = "format_numbers" /\ hist = <<>>
    /\ \E r \in {format_numbers(central, errors, arg.opt, ascii, <<>>)} :
          /\ out' = r.out
          /\ errors' = r.errors
          /\ prec' = r.prec
          /\ tote' = r.tote
          /\ ascii' = r.ascii
          /\ fatal' = ~r.ok
    /\ diag' = diag \o round_diag(central, errors, arg.opt)
    /\ hist' = Append(hist, "format_numbers")
    /\ UNCHANGED <<arg, str, v, central, sum, opt_, pos>>

\* main of round.cc on the arguments arg.argv
Main ==
    /\ ~fatal
    /\ arg.scn = "main" /\ hist = <<>>
    /\ \E junk \in JunkLabels :
          \E r \in {main(arg.argv, ascii, junk)} :
             /\ out' = r.out
             /\ diag' = diag \o r.diag
             /\ opt_' = r.opts
             /\ ascii' = r.ascii
             /\ fatal' = ~r.ok
    /\ hist' = Append(hist, "main")
    /\ UNCHANGED <<arg, str, v, central, errors, sum, tote, prec, pos>>

Next ==
    \/ FromString
    \/ ToStringOp
    \/ PdgRule
    \/ TwodigRound
    \/ KeepThreeSig
    \/ PdgRound
    \/ RoundToPrec
    \/ QuadratureSum
    \/ Symmetrize
    \/ Round
    \/ Format
    \/ FormatSeq
    \/ FormatNumbers
    \/ Parse
    \/ Main

Spec == Init /\ [][Next]_vars

\* the operation op has just returned (or exited)
Done(op) == hist # <<>> /\ hist[Len(hist)] = op

TypeOK ==
    /\ fatal \in BOOLEAN
    /\ v.n \in 0..UintMax
    /\ central.n \in 0..UintMax
    /\ \A i \in 1..Len(errors) : errors[i].sgn \in {-1, 0, 1}

(***************************************************************************)
(* Helpers of the properties.                                              *)
(***************************************************************************)
\* sub occurs in s as a contiguous substring
Contains(s, sub) ==
    \E i \in 1..(Len(s) - Len(sub) + 1) : SubSeq(s, i, i + Len(sub) - 1) = sub

\* the digit characters of s, in order
DigitChars(s) == SelectSeq(s, IsDigit)

RECURSIVE DropLeadingZeros(_)
DropLeadingZeros(ds) ==
    IF ds # <<>> /\ Head(ds) = "0" THEN DropLeadingZeros(Tail(ds)) ELSE ds

RECURSIVE DigitsValue(_)
\* the integer a sequence of digit characters denotes
DigitsValue(ds) ==
    IF ds = <<>> THEN 0
    ELSE 10 * DigitsValue(SubSeq(ds, 1, Len(ds) - 1)) + DigitVal(ds[Len(ds)])

\* the token without surrounding whitespace and without one leading sign
Body(s) ==
    LET t == TrimBack(TrimFront(s))
    IN IF t # <<>> /\ Head(t) \in {"+", "-"} THEN Tail(t) ELSE t

\* number of decimal points of s
DotCount(s) == Cardinality({i \in 1..Len(s) : s[i] = "."})

\* zero digits, more than one '.', or a character outside [0-9.]
Malformed(s) ==
    \/ DigitChars(Body(s)) = <<>>
    \/ DotCount(Body(s)) > 1
    \/ \E i \in 1..Len(Body(s)) : ~IsDigit(Body(s)[i]) /\ Body(s)[i] # "."

RECURSIVE SumOfSquares(_)
\* the sum of the squares of the values of a list of numbers
SumOfSquares(es) ==
    IF es = <<>> THEN RatZero
    ELSE RatAdd(RatMul(to_double(Head(es)), to_double(Head(es))),
                SumOfSquares(Tail(es)))

(***************************************************************************)
(* Properties.                                                             *)
(***************************************************************************)
\* the options of README example 1: two-digit rounding, precision of the
\* larger error, terminal mode
OptExample1 == [format_options EXCEPT !.algo = "twodigits"]

IsExample1 == arg.scn = "format" /\ arg.val = Tok27432 /\ arg.err = Errs1
              /\ arg.opt = OptExample1

\* C1: format of "27.432" with uncertainties "2.134" and "0.125", two-digit
\* rounding, precision of the larger error and terminal mode returns exactly
\* "27.4 ± 2.1 ± 0.1".
C1_Example1 ==
    (Done("format") /\ IsExample1) =>
        /\ ~fatal
        /\ out = <<"2", "7", ".", "4", " ", "±", " ", "2", ".", "1", " ", "±", " ",
                   "0", ".", "1">>

C1_Witness == Done("format") /\ IsExample1 /\ ~fatal /\ Len(out) = 16

\* the options of README example 2: two-digit rounding, precision of the
\* total error, tex mode, three labels
OptExample2 == [format_options EXCEPT !.algo = "twodigits", !.mode = "tex",
                                      !.prec_to_total_err = TRUE,
                                      !.labels = LabelsOf(<<LabStat, LabSyst, LabTheo>>)]

IsExample2 == arg.scn = "format" /\ arg.val = Tok27462 /\ arg.err = Errs2
              /\ arg.opt = OptExample2

UpperMark == <<"^", "{", "+", "0", ".", "3", "1", "}">>

LowerMark == <<"_", "{", "-", "0", ".", "2", "9", "}">>

PmWith(label) ==
    <<"\\", "p", "m", " ", "0", ".", "0", "1", " ", "\\", "t", "e", "x", "t", "{">>
        \o label \o <<"}">>

\* C2 as stated: the string of example 2 contains ^{+0.31}, _{-0.29} and
\* \pm 0.01 \text{(theo)}.
C2_Example2_Stated ==
    (Done("format") /\ IsExample2) =>
        /\ ~fatal
        /\ Contains(out, UpperMark)
        /\ Contains(out, LowerMark)
        /\ Contains(out, PmWith(LabTheo))

\* C2, amended: the string of example 2 contains ^{+0.31}, _{-0.29} and
\* \pm 0.01 \text{(syst)}: the asymmetric pair takes the first label, the
\* symmetric uncertainty the second, and the third label is not printed.
C2_Example2 ==
    (Done("format") /\ IsExample2) =>
        /\ ~fatal
        /\ Contains(out, UpperMark)
        /\ Contains(out, LowerMark)
        /\ Contains(out, PmWith(LabSyst))
        /\ ~Contains(out, LabTheo)

C2_Witness == Done("format") /\ IsExample2 /\ ~fatal /\ Contains(out, LabStat)

\* C3: pdg_rule on a 3-digit mantissa m with exponent p gives m rounded
\* half-up to two digits at p+1 for 100..354, m div 100 (plus 1 iff the tens
\* digit is >= 5) at p+2 for 355..949, and 10 at p+2 for 950..999.
C3_PdgRule ==
    (Done("pdg_rule") /\ arg.v.n \in 100..999) =>
        LET m == arg.v.n
            p == arg.v.p
        IN /\ ~fatal
           /\ v.sgn = arg.v.sgn
           /\ (m <= 354) => (v.n = (m + 5) \div 10 /\ v.p = p + 1)
           /\ (355 <= m /\ m <= 949) =>
                 /\ v.n = (m \div 100) + (IF (m % 100) >= 50 THEN 1 ELSE 0)
                 /\ v.p = p + 2
           /\ (m >= 950) => (v.n = 10 /\ v.p = p + 2)
           /\ (m = 100) => (v.n = 10 /\ v.p = p + 1)
           /\ (m = 354) => (v.n = 35 /\ v.p = p + 1)
           /\ (m = 355) => (v.n = 4 /\ v.p = p + 2)
           /\ (m = 949) => (v.n = 9 /\ v.p = p + 2)
           /\ (m = 950) => (v.n = 10 /\ v.p = p + 2)
           /\ (m = 999) => (v.n = 10 /\ v.p = p + 2)

C3_Witness == Done("pdg_rule") /\ arg.v.n = 355 /\ v.n = 4 /\ v.p = arg.v.p + 2

\* C4 as stated: twodig_round on a 3-digit mantissa leaves a mantissa of
\* exactly two digits (10..99), raises the exponent by exactly 1 and never
\* ends in the fatal outcome.
C4_TwoDigits ==
    (Done("twodig_round") /\ arg.v.n \in 100..999) =>
        /\ ~fatal
        /\ v.n \in 10..99
        /\ v.p = arg.v.p + 1

\* C5 as stated: for two or more symmetric uncertainties the sum accumulated
\* by quadrature_sum is the sum of their squares, and quadrature_sum of 3 and
\* 4 is 5.
C5_Quadrature ==
    (Done("quadrature_sum") /\ Len(arg.errors) >= 2
        /\ \A i \in 1..Len(arg.errors) : arg.errors[i].sgn = 0) =>
        /\ sum = SumOfSquares(arg.errors)
        /\ (arg.errors = <<Number(3, 0, 0), Number(4, 0, 0)>>) =>
              (~fatal /\ tote = Number(5, 0, 0))

\* C6: applying symmetrize_errors to a vector it has already symmetrized
\* leaves the vector as it is (same length, entries and sgn tags).
C6_Idempotent ==
    [][(arg.scn = "symmetrize_errors" /\ Len(hist) >= 1 /\ hist' # hist) =>
          (errors' = errors /\ ~fatal')]_vars

C6_Witness ==
    /\ arg.scn = "symmetrize_errors"
    /\ Len(hist) = 2
    /\ Len(errors) = 2
    /\ Len(arg.errors) = 3
    /\ errors[1].sgn # 0
    /\ errors[2] = Number(95, -1, 0)

\* C7 as stated: for every accepted token s, digit_count of the parsed
\* mantissa equals the number of digit characters of s.
C7_DigitCount_Stated ==
    (Done("from_string") /\ arg.scn = "from_string" /\ ~fatal) =>
        digit_count(v.n) = Len(DigitChars(arg.tok))

\* C7, amended: for every accepted token s, digit_count of the parsed
\* mantissa equals the number of digit characters of s that follow its
\* leading zeros, and 1 when every digit of s is a zero.
C7_DigitCount ==
    (Done("from_string") /\ arg.scn = "from_string" /\ ~fatal) =>
        digit_count(v.n) = Max(1, Len(DropLeadingZeros(DigitChars(arg.tok))))

C7_Witness ==
    /\ Done("from_string") /\ arg.scn = "from_string" /\ ~fatal
    /\ arg.tok = <<"0", ".", "0", "5">>
    /\ v = Number(5, -2, 0)

\* the round trip of v: to_string, from_string, to_string
RoundTripParsed == arg.scn = "round_trip" /\ Len(hist) >= 2

RoundTripDone == arg.scn = "round_trip" /\ Len(hist) = 3

\* C8 as stated: for every number v with exponent p >= 0, parsing
\* v.to_string() succeeds and serializing the result gives the same string.
C8_RoundTrip_Stated ==
    (RoundTripParsed /\ arg.v.p >= 0) =>
        /\ ~fatal
        /\ RoundTripDone => str = to_string(arg.v, FALSE)

\* the value n * 10^p fits the mantissa, and a zero mantissa has exponent 0
Representable(x) == x.n * Pow(10, x.p) <= UintMax /\ (x.n = 0 => x.p = 0)

\* C8, amended: for every number v with exponent p >= 0 whose value
\* n * 10^p fits the mantissa width and whose mantissa is not 0 unless p = 0,
\* parsing v.to_string() succeeds and serializing the result gives the same
\* string.
C8_RoundTrip ==
    (RoundTripParsed /\ arg.v.p >= 0 /\ Representable(arg.v)) =>
        /\ ~fatal
        /\ RoundTripDone => str = to_string(arg.v, FALSE)

C8_Witness ==
    /\ RoundTripDone /\ ~fatal
    /\ arg.v = Number(UintMax \div 100, 2, -1)
    /\ v = Number((UintMax \div 100) * 100, 0, -1)

\* C9: from_string ends in the fatal outcome, leaving no number and no
\* formatted string, for every token with zero digits, more than one '.' or a
\* character outside [0-9.] after trimming and one leading sign; it succeeds
\* for a token of digits with at most one '.' whose mantissa fits the width.
C9_Reject ==
    /\ (Done("from_string") /\ arg.scn = "from_string") =>
          /\ Malformed(arg.tok) => (fatal /\ v = arg.v /\ out = <<>>)
          /\ (~Malformed(arg.tok) /\ DigitsValue(DigitChars(arg.tok)) <= UintMax)
                => ~fatal
    /\ (Done("format") /\ Malformed(arg.val)) => (fatal /\ out = <<>>)

C9_Witness ==
    /\ Done("from_string") /\ arg.scn = "from_string"
    /\ arg.tok = Tok123
    /\ fatal

\* C10 as stated: whenever prec_to_total_err is set, whatever
\* prec_to_larger_err, the exponent detail::round re-rounds to is the
\* exponent of the rounded quadrature sum.
C10_TotalPrec ==
    (Done("round") /\ ~fatal /\ arg.opt.prec_to_total_err) => prec = tote.p

\* the uncertainties detail::round works on: the vector passed, symmetrized
\* when symmetrize_errors is set
Symmetrized(es, opt) ==
    IF opt.symmetrize_errors THEN symmetrize_errors(es).errors ELSE es

\* the exponents obtained by rounding each entry of es on its own
RoundedExps(es, algo) == {round_algo_apply(algo, es[i]).p : i \in 1..Len(es)}

\* C11: when prec_to_larger_err is set, prec_to_total_err is not and
\* detail::round returns, the central value and every uncertainty end with
\* one exponent, the largest of the exponents that rounding each uncertainty
\* on its own with the selected algorithm gives.
C11_LargerPrec ==
    (Done("round") /\ ~fatal /\ arg.opt.prec_to_larger_err
        /\ ~arg.opt.prec_to_total_err) =>
        LET exps == RoundedExps(Symmetrized(arg.errors, arg.opt), arg.opt.algo)
        IN /\ exps # {}
           /\ central.p \in exps
           /\ \A x \in exps : x <= central.p
           /\ \A i \in 1..Len(errors) : errors[i].p = central.p

C11_Witness ==
    /\ Done("round") /\ ~fatal
    /\ arg.opt.prec_to_larger_err /\ ~arg.opt.prec_to_total_err
    /\ arg.opt.algo = "twodigits"
    /\ arg.errors = <<Number(2, 0, 0), Number(12, 0, 0)>>
    /\ central = Number(27, 0, 0)
    /\ errors = <<Number(2, 0, 0), Number(12, 0, 0)>>

\* the first rounding step of detail::round pads the first uncertainty: only
\* prec_to_larger_err is set and the entry has fewer than 3 digits
PadsFirstError ==
    /\ arg.opt.prec_to_larger_err /\ ~arg.opt.prec_to_total_err
    /\ ~arg.opt.symmetrize_errors
    /\ Len(arg.errors) >= 1
    /\ digit_count(arg.errors[1].n) < 3

\* C13 as stated: the zero-padding warning of detail::round is not printed
\* when mode = terminal and factorize_powers is set, and is printed for a
\* value of fewer than 3 digits under every other combination.
C13_Quiet ==
    Done("round") =>
        /\ (arg.opt.mode = "terminal" /\ arg.opt.factorize_powers) => diag = <<>>
        /\ (~(arg.opt.mode = "terminal" /\ arg.opt.factorize_powers)
               /\ PadsFirstError) => diag # <<>>

\* C12 as stated: in a sequence of format calls of one process the string a
\* call returns depends on the inputs and options of that call alone: it is
\* the string the same call returns as the first call of a process (with
\* no_utf8: ASCII multiplication and plus-minus signs, and the brackets,
\* spacing and label wrappers of the mode of this call).
C12_Pure ==
    (arg.scn = "format_seq" /\ Done("format") /\ ~fatal) =>
        out = format(arg.val, arg.err, opt_, AsciiUninit, <<>>).out

RECURSIVE FlagsOf(_)
\* the flag characters of a parse context: those before the first '}'
FlagsOf(ctx) ==
    IF ctx = <<>> \/ Head(ctx) = "}" THEN <<>>
    ELSE <<Head(ctx)>> \o FlagsOf(Tail(ctx))

\* the parse context holds no closing brace
Unterminated(ctx) == \A i \in 1..Len(ctx) : ctx[i] # "}"

\* the option a flag character names, set in o
Named(c, o) ==
    CASE c = "c" -> [o EXCEPT !.algo = "twodigits", !.prec_to_total_err = TRUE]
      [] c = "e" -> [o EXCEPT !.prec_to_total_err = TRUE]
      [] c = "l" -> [o EXCEPT !.prec_to_larger_err = TRUE]
      [] c = "p" -> [o EXCEPT !.algo = "pdg"]
      [] c = "s" -> [o EXCEPT !.symmetrize_errors = TRUE]
      [] c = "t" -> [o EXCEPT !.algo = "twodigits"]
      [] c = "D" -> [o EXCEPT !.cdot = TRUE]
      [] c = "F" -> [o EXCEPT !.factorize_powers = TRUE]
      [] c = "G" -> [o EXCEPT !.mode = "gnuplot"]
      [] c = "T" -> [o EXCEPT !.mode = "typst"]
      [] c = "X" -> [o EXCEPT !.mode = "tex"]
      [] c = "U" -> [o EXCEPT !.no_utf8 = TRUE]
      [] OTHER -> o

RECURSIVE NamedOptions(_, _)
\* the defaults o changed in the options the characters of flags name
NamedOptions(flags, o) ==
    IF flags = <<>> THEN o ELSE NamedOptions(Tail(flags), Named(Head(flags), o))

\* C14 as stated: the configuration parse leaves differs from the
\* format_options defaults exactly in the options named by the flag
\* characters present; options not named keep their default and characters
\* parse does not know change nothing.
C14_Flags ==
    (Done("parse") /\ ~fatal) =>
        opt_ = NamedOptions(FlagsOf(arg.tok), format_options)

\* C15 as stated: when the flag string ends without a closing '}', parse
\* ends in the fatal outcome (throws format_error).
C15_Unterminated ==
    (Done("parse") /\ Unterminated(arg.tok)) => fatal

\* the command line of README example 1: -t -l 27.432 2.134 0.125 -L
\* "(stat),(syst)"
CliExample1 == <<<<"-", "t">>, <<"-", "l">>>> \o CliExampleTail

\* C16 as stated: the command line maps -l to prec_to_larger_err and does
\* not report it as unrecognised, so that example 1 prints only the line
\* "27.4 ± 2.1 (stat) ± 0.1 (syst)".
C16_CommandLine ==
    (Done("main") /\ arg.argv = CliExample1) =>
        /\ ~fatal
        /\ opt_.prec_to_larger_err
        /\ diag = <<>>
        /\ out = <<"2", "7", ".", "4", " ", "±", " ", "2", ".", "1", " ">> \o LabStat
                   \o <<" ", "±", " ", "0", ".", "1", " ">> \o LabSyst

\* C17 as stated: after format_numbers returns, the uncertainty vector the
\* caller passed holds the entries it held before the call (same length,
\* mantissas, exponents and sgn tags), for every option combination.
C17_NoEffect ==
    (Done("format_numbers") /\ ~fatal) => errors = arg.errors

\* C18: round_to_prec ends in the fatal outcome exactly when the exponent of
\* the number is larger than the target, and then leaves the number as it
\* was; so a format call with an integer central value and fractional
\* uncertainties, where a shared exponent is set, is fatal and returns no
\* string.
C18_CannotRound ==
    /\ Done("round_to_prec") =>
          /\ fatal <=> arg.v.p > prec
          /\ fatal => v = arg.v
    /\ (Done("format") /\ arg.val = Tok27
           /\ (arg.opt.prec_to_larger_err \/ arg.opt.prec_to_total_err)) =>
          (fatal /\ out = <<>>)

C18_Witness ==
    /\ Done("round_to_prec") /\ fatal
    /\ arg.v.n = 999 /\ arg.v.p = prec + 1
    /\ v = arg.v

\* C19: for a number n x 10^p with p <= target, round_to_prec ends with the
\* exponent target and the mantissa n div 10^k, plus 1 iff the last digit
\* dropped is >= 5, where k = target - p; for k = 0 the mantissa is kept.
\* This is n x 10^p rounded half-up to a multiple of 10^target.
C19_HalfUp ==
    (Done("round_to_prec") /\ arg.v.p <= prec) =>
        LET k == prec - arg.v.p
            n == arg.v.n
        IN /\ ~fatal
           /\ v.p = prec
           /\ v.sgn = arg.v.sgn
           /\ (k = 0) => v.n = n
           /\ (k > 0) =>
                 /\ v.n = (n \div Pow(10, k))
                           + (IF (n \div Pow(10, k - 1)) % 10 >= 5 THEN 1 ELSE 0)
                 /\ v.n = (n + 5 * Pow(10, k - 1)) \div Pow(10, k)

C19_Witness ==
    /\ Done("round_to_prec") /\ ~fatal
    /\ arg.v.n = 995 /\ prec = arg.v.p + 1
    /\ v.n = 100

\* C20 as stated: for every mantissa, 0 included, keep_three_sig leaves a
\* mantissa of exactly 3 digits (100..999), so that pdg_round never ends in
\* the fatal outcome of pdg_rule; a mantissa of fewer than 3 digits is
\* padded without changing the value mantissa x 10^exponent.
C20_ThreeDigits ==
    /\ Done("keep_three_sig") =>
          /\ v.n \in 100..999
          /\ digit_count(arg.v.n) < 3 =>
                (v.p <= arg.v.p /\ v.n = arg.v.n * Pow(10, arg.v.p - v.p))
    /\ Done("pdg_round") => ~fatal

\* C21 as stated: when the last entry handed to symmetrize_errors is
\* asymmetric and the entry before it is symmetric, the call reports the
\* pairing warning and leaves both entries as they were: the list keeps its
\* length and its entries, whatever their magnitudes.
C21_Unpaired ==
    (/\ hist = <<"symmetrize_errors">>
     /\ Len(arg.errors) >= 2
     /\ arg.errors[Len(arg.errors)].sgn # 0
     /\ arg.errors[Len(arg.errors) - 1].sgn = 0) =>
        /\ \E k \in 1..Len(diag) : diag[k] = PairingWarning
        /\ ~fatal
        /\ errors = arg.errors

\* C22 as stated: for every uncertainty list and every non-empty label list,
\* each index at which formatter::format reads the label list is smaller
\* than the size of the list.
C22_LabelIndex ==
    (Done("format") /\ ~fatal /\ ~arg.opt.labels.null
       /\ Len(arg.opt.labels.list) > 0) =>
        \A k \in LabelReads(errors, 1, 0, arg.opt) : k < Len(arg.opt.labels.list)

\* C23: from_string never lets the mantissa wrap around: for every token of
\* digits with at most one '.', parsing succeeds with the mantissa equal to
\* the integer the digits denote if that integer is <= 2^w - 1, and ends in
\* the fatal "mantissa overflow" outcome, leaving no number, otherwise.
C23_NoWrap ==
    (Done("from_string") /\ arg.scn = "from_string" /\ ~Malformed(arg.tok)) =>
        LET val == DigitsValue(DigitChars(arg.tok))
        IN /\ fatal <=> val > UintMax
           /\ ~fatal => v.n = val
           /\ fatal => (v = arg.v /\ from_string(arg.tok) = Exit("mantissa overflow"))

C23_Witness ==
    /\ Done("from_string") /\ arg.scn = "from_string"
    /\ arg.tok = ToChars(UintMax + 1)
    /\ fatal

\* the mantissa of x rounded half-up, once, to a multiple of 10^target
HalfUpTo(x, target) ==
    IF x.p >= target THEN x.n * Pow(10, x.p - target)
    ELSE (x.n + 5 * Pow(10, target - x.p - 1)) \div Pow(10, target - x.p)

\* C24 as stated: when prec_to_larger_err is set and detail::round returns,
\* the final mantissa of every uncertainty is the value it was passed with,
\* rounded half-up once to the shared exponent: rounding with the selected
\* algorithm first and to the shared exponent afterwards gives no other
\* digit.
C24_RoundedOnce ==
    (Done("round") /\ ~fatal /\ arg.opt.prec_to_larger_err) =>
        LET es == Symmetrized(arg.errors, arg.opt)
        IN /\ Len(errors) = Len(es)
           /\ \A i \in 1..Len(errors) :
                 /\ errors[i].p = prec
                 /\ errors[i].n = HalfUpTo(es[i], prec)

\* C25 as stated: whenever factorize_powers is set and format returns a
\* string, every uncertainty handed to formatter::format has the exponent of
\* the central value, for every combination of prec_to_total_err and
\* prec_to_larger_err, both unset included.
C25_SharedPower ==
    (Done("format") /\ arg.scn = "format" /\ ~fatal /\ arg.opt.factorize_powers) =>
        \A i \in 1..Len(errors) : errors[i].p = central.p

\* C26: for every number v with exponent p < 0 and sgn 0 or -1,
\* from_string(v.to_string()) succeeds and returns the mantissa, the exponent
\* and the sgn of v, both in the "0." form with padding zeros (-p >= digit
\* count) and with the decimal point inside the mantissa.
C26_RoundTripFraction ==
    (RoundTripParsed /\ arg.v.p < 0 /\ arg.v.sgn \in {0, -1}) =>
        /\ ~fatal
        /\ v = arg.v

C26_Witness ==
    /\ RoundTripParsed /\ ~fatal
    /\ arg.v = Number(5, -MaxExp, -1)
    /\ Len(str) = MaxExp + 3
    /\ v = arg.v

====
